---------------------------- MODULE Spec2Model ----------------------------
(***************************************************************************)
(* Model of the transcranial ultrasound safety calculator, src/src/App.tsx *)
(* (the React component App): its two pieces of state, params and results, *)
(* the input handler, the effect that recomputes the results, and the      *)
(* rendered safety checks.                                                 *)
(*                                                                         *)
(* JavaScript numbers.  Every quantity of the program is a product,        *)
(* quotient or square root of its inputs and constants, except the area    *)
(* factor 1 - skullDepth/focalDepth.  A number is therefore modelled by    *)
(* its IEEE-754 kind (NaN, signed infinity, signed zero, finite) and, for  *)
(* a finite value, by its sign and its exact real value, written as the    *)
(* vector of the exponents of the primes of Primes and of pi, counted in   *)
(* halves so that Math.sqrt stays exact.  Rounding to 53 bits is not       *)
(* modelled.                                                               *)
(***************************************************************************)
EXTENDS Integers, Sequences, FiniteSets, TLC

VARIABLES params, results, pending, error, view

vars == <<params, results, pending, error, view>>

----------------------------------------------------------------------------
(* Numbers *)

Primes == <<2, 3, 5, 7, 11, 17, 19, 23, 41, 67, 89>>

NPrimes == Len(Primes)

\* the exponent vector has one more place, for pi
NExp == NPrimes + 1

PiIndex == NExp

\* natural logarithms of the primes and of pi, times 10^6, rounded
LnMicro == <<693147, 1098612, 1609438, 1945910, 2397895, 2833213, 2944439,
             3135494, 3713572, 4204693, 4488636, 1144730>>

ZeroVec == [i \in 1..NExp |-> 0]

NaN == [k |-> "nan", s |-> 1, e |-> ZeroVec]

Inf(sg) == [k |-> "inf", s |-> sg, e |-> ZeroVec]

Zero(sg) == [k |-> "zero", s |-> sg, e |-> ZeroVec]

Fin(sg, ev) == [k |-> "fin", s |-> sg, e |-> ev]

RECURSIVE ExpOf(_, _)
\* how many times the prime p divides n > 0
ExpOf(n, p) == IF n % p = 0 THEN 1 + ExpOf(n \div p, p) ELSE 0

RECURSIVE Pow(_, _)
Pow(b, n) == IF n = 0 THEN 1 ELSE b * Pow(b, n - 1)

RECURSIVE ProdUpTo(_, _)
\* the product of Primes[i]^f[i] for i in 1..n
ProdUpTo(f, n) == IF n = 0 THEN 1 ELSE Pow(Primes[n], f[n]) * ProdUpTo(f, n - 1)

IntExps(n) == [i \in 1..NPrimes |-> ExpOf(n, Primes[i])]

\* n > 0 is a product of the primes of Primes
Smooth(n) == ProdUpTo(IntExps(n), NPrimes) = n

\* the positive integer n, for smooth n
FromNat(n) ==
  CASE Smooth(n) ->
    Fin(1, [i \in 1..NExp |-> IF i <= NPrimes THEN 2 * ExpOf(n, Primes[i]) ELSE 0])

Neg(a) == IF a.k = "nan" THEN a ELSE [a EXCEPT !.s = -a.s]

\* the integer n
FromInt(n) == IF n = 0 THEN Zero(1) ELSE IF n > 0 THEN FromNat(n) ELSE Neg(FromNat(-n))

Mul(a, b) ==
  IF a.k = "nan" \/ b.k = "nan" THEN NaN
  ELSE IF (a.k = "inf" /\ b.k = "zero") \/ (a.k = "zero" /\ b.k = "inf") THEN NaN
  ELSE IF a.k = "inf" \/ b.k = "inf" THEN Inf(a.s * b.s)
  ELSE IF a.k = "zero" \/ b.k = "zero" THEN Zero(a.s * b.s)
  ELSE Fin(a.s * b.s, [i \in 1..NExp |-> a.e[i] + b.e[i]])

Div(a, b) ==
  IF a.k = "nan" \/ b.k = "nan" THEN NaN
  ELSE IF (a.k = "inf" /\ b.k = "inf") \/ (a.k = "zero" /\ b.k = "zero") THEN NaN
  ELSE IF a.k = "inf" \/ b.k = "zero" THEN Inf(a.s * b.s)
  ELSE IF a.k = "zero" \/ b.k = "inf" THEN Zero(a.s * b.s)
  ELSE Fin(a.s * b.s, [i \in 1..NExp |-> a.e[i] - b.e[i]])

\* n / d for integers n and d > 0
Rat(n, d) == Div(FromInt(n), FromNat(d))

\* every exponent is whole, so the square root is exact in half exponents
Sqrt(a) ==
  IF a.k = "nan" THEN NaN
  ELSE IF a.k = "zero" THEN a
  ELSE IF a.s = -1 THEN NaN
  ELSE IF a.k = "inf" THEN a
  ELSE CASE \A i \in 1..NExp : a.e[i] % 2 = 0 ->
         Fin(1, [i \in 1..NExp |-> a.e[i] \div 2])

RECURSIVE LogUpTo(_, _)
\* twice the natural logarithm of |a|, times 10^6
LogUpTo(ev, n) == IF n = 0 THEN 0 ELSE ev[n] * LnMicro[n] + LogUpTo(ev, n - 1)

LogOf(a) == LogUpTo(a.e, NExp)

\* a < b as IEEE-754 orders them: false when either is NaN, -0 = +0
Lt(a, b) ==
  IF a.k = "nan" \/ b.k = "nan" THEN FALSE
  ELSE IF a.k = "zero" /\ b.k = "zero" THEN FALSE
  ELSE IF a.k = "zero" THEN b.s = 1
  ELSE IF b.k = "zero" THEN a.s = -1
  ELSE IF a.s # b.s THEN a.s = -1
  ELSE IF a.k = "inf" THEN a.s = -1 /\ b.k = "fin"
  ELSE IF b.k = "inf" THEN b.s = 1
  ELSE IF a.e = b.e THEN FALSE
  ELSE IF a.s = 1 THEN LogOf(a) < LogOf(b) ELSE LogOf(b) < LogOf(a)

\* a === b for numbers: NaN equals nothing, -0 equals +0
NumEq(a, b) ==
  /\ a.k # "nan"
  /\ b.k # "nan"
  /\ \/ a.k = "zero" /\ b.k = "zero"
     \/ a = b

Le(a, b) == Lt(a, b) \/ NumEq(a, b)

\* a finite number without square roots or pi, as numerator and denominator
Numer(a) == ProdUpTo([i \in 1..NPrimes |-> IF a.e[i] > 0 THEN a.e[i] \div 2 ELSE 0], NPrimes)

Denom(a) == ProdUpTo([i \in 1..NPrimes |-> IF a.e[i] < 0 THEN (-a.e[i]) \div 2 ELSE 0], NPrimes)

IsRational(a) == a.k = "fin" /\ a.e[PiIndex] = 0 /\ \A i \in 1..NPrimes : a.e[i] % 2 = 0

\* a - b
Sub(a, b) ==
  IF a.k = "nan" \/ b.k = "nan" THEN NaN
  ELSE IF a.k = "inf" /\ b.k = "inf" THEN (IF a.s = b.s THEN NaN ELSE a)
  ELSE IF a.k = "inf" THEN a
  ELSE IF b.k = "inf" THEN Neg(b)
  ELSE IF b.k = "zero" THEN (IF a.k = "zero" /\ a.s = -1 /\ b.s = 1 THEN a ELSE
                             IF a.k = "zero" THEN Zero(1) ELSE a)
  ELSE IF a.k = "zero" THEN Neg(b)
  ELSE CASE IsRational(a) /\ IsRational(b) ->
         LET n == a.s * Numer(a) * Denom(b) - b.s * Numer(b) * Denom(a)
             d == Denom(a) * Denom(b)
         IN  IF n = 0 THEN Zero(1) ELSE Rat(n, d)

IsFinite(a) == a.k \in {"zero", "fin"}

----------------------------------------------------------------------------
(* The text of a number input, as a sequence of characters, and parseFloat *)

DigitChars == <<"0", "1", "2", "3", "4", "5", "6", "7", "8", "9">>

IsDigit(c) == \E i \in 1..Len(DigitChars) : DigitChars[i] = c

DigitVal(c) == (CHOOSE i \in 1..Len(DigitChars) : DigitChars[i] = c) - 1

RECURSIVE DigitRun(_, _)
\* the number of digits of t from position i on
DigitRun(t, i) == IF i <= Len(t) /\ IsDigit(t[i]) THEN 1 + DigitRun(t, i + 1) ELSE 0

RECURSIVE DigitsValue(_, _, _)
\* the value of the n digits of t that start at position i
DigitsValue(t, i, n) ==
  IF n = 0 THEN 0 ELSE DigitsValue(t, i, n - 1) * 10 + DigitVal(t[i + n - 1])

\* parseFloat: an optional sign, digits, an optional fraction; the longest
\* such prefix is the value and a text without one is NaN (exponents, which
\* the texts of Texts do not use, are left out)
parseFloat(t) ==
  LET signLen == IF Len(t) > 0 /\ t[1] \in {"-", "+"} THEN 1 ELSE 0
      sg == IF Len(t) > 0 /\ t[1] = "-" THEN -1 ELSE 1
      ni == DigitRun(t, signLen + 1)
      dot == signLen + ni + 1
      nf == IF dot <= Len(t) /\ t[dot] = "." THEN DigitRun(t, dot + 1) ELSE 0
      n == DigitsValue(t, signLen + 1, ni) * Pow(10, nf) + DigitsValue(t, dot + 1, nf)
  IN  IF ni + nf = 0 THEN NaN
      ELSE IF n = 0 THEN Zero(sg)
      ELSE Rat(sg * n, Pow(10, nf))

----------------------------------------------------------------------------
(* Constants of the program *)

\* number literals of the source
One == FromNat(1)

Two == FromNat(2)

PosZero == Zero(1)

MHZ_TO_HZ == FromNat(1000000)

KHZ_TO_HZ == FromNat(1000)

KPA_TO_PA == FromNat(1000)

CM2_TO_M2 == Rat(1, 10000)

W_TO_MW == FromNat(1000)

PA_TO_MPA == Rat(1, 1000000)

C_CONSTANT_MW_PER_CM == FromNat(40)

SPEED_OF_SOUND_M_PER_S == FromNat(1540)

DENSITY_KG_PER_M3 == FromNat(1058)

IMPEDANCE_RAYL == Mul(SPEED_OF_SOUND_M_PER_S, DENSITY_KG_PER_M3)

CM_TO_M == Rat(1, 100)

\* Math.PI
MathPI == Fin(1, [i \in 1..NExp |-> IF i = PiIndex THEN 2 ELSE 0])

skullDepthCm == One

TooShallow == "Focal depth is too shallow. TODO: Implement diffraction-limited focusing."

NoError == "none"

\* useState<SafetyParams>({...})
DefaultParams ==
  [pulseRepetitionRateKHz |-> FromNat(5),
   frequencyMHz |-> FromNat(2),
   cycles |-> FromNat(2),
   transducerWidthCm |-> Rat(287, 100),
   transducerHeightCm |-> Rat(133, 100),
   transducerPressureKPa |-> FromNat(600),
   useElevationalFocusing |-> FALSE,
   elevationalFocalDepthCm |-> FromNat(3),
   useAzimuthalFocusing |-> FALSE,
   azimuthalFocalDepthCm |-> FromNat(3)]

\* useState({pulseDurationSec: 0, ...})
InitialResults ==
  [pulseDurationSec |-> Zero(1),
   dutyCycle |-> Zero(1),
   intensityPerPulseWPerCm2 |-> Zero(1),
   averageIntensityMWPerCm2 |-> Zero(1),
   transducerAveragePowerMW |-> Zero(1),
   tic |-> Zero(1),
   mechanicalIndex |-> Zero(1),
   brainPressureKPa |-> Zero(1)]

ResultFields == DOMAIN InitialResults

----------------------------------------------------------------------------
(* The calculation *)

\* mutant: the focal depth is left in centimetres
calculateFocusingGainDepthInCm(transducerDimensionCm, focalDepthCm, frequencyMHz) ==
  LET wavelengthM == Div(SPEED_OF_SOUND_M_PER_S, Mul(frequencyMHz, MHZ_TO_HZ))
      transducerDimensionM == Mul(transducerDimensionCm, CM_TO_M)
      fresnelNumber == Div(Mul(transducerDimensionM, transducerDimensionM),
                           Mul(wavelengthM, focalDepthCm))
  IN  Sqrt(fresnelNumber)

calculateFocusingGain(transducerDimensionCm, focalDepthCm, frequencyMHz) ==
  LET wavelengthM == Div(SPEED_OF_SOUND_M_PER_S, Mul(frequencyMHz, MHZ_TO_HZ))
      transducerDimensionM == Mul(transducerDimensionCm, CM_TO_M)
      focalDepthM == Mul(focalDepthCm, CM_TO_M)
      fresnelNumber == Div(Mul(transducerDimensionM, transducerDimensionM),
                           Mul(wavelengthM, focalDepthM))
  IN  Sqrt(fresnelNumber)

calculateIntensity(pressurePa, impedanceRayl) ==
  Mul(Div(Mul(pressurePa, pressurePa), Mul(Two, impedanceRayl)), CM2_TO_M2)

calculateAverageIntensity(intensityPerPulseWPerCm2, dutyCycle) ==
  Mul(Mul(intensityPerPulseWPerCm2, dutyCycle), W_TO_MW)

\* the guard of calculateBeamAreaAtSkull: it throws
BeamAreaThrows(elevationalFocalDepthCm, azimuthalFocalDepthCm) ==
  \/ Lt(Div(skullDepthCm, elevationalFocalDepthCm), PosZero)
  \/ Lt(Div(skullDepthCm, azimuthalFocalDepthCm), PosZero)

\* the value calculateBeamAreaAtSkull returns when it does not throw
calculateBeamAreaAtSkull(transducerWidthCm, transducerHeightCm, useElevationalFocusing, elevationalFocalDepthCm, useAzimuthalFocusing, azimuthalFocalDepthCm) ==
  LET areaFactor0 == One
      areaFactor1 == IF useElevationalFocusing
                     THEN Mul(areaFactor0,
                              Sub(One, Div(skullDepthCm, elevationalFocalDepthCm)))
                     ELSE areaFactor0
      areaFactor2 == IF useAzimuthalFocusing
                     THEN Mul(areaFactor1,
                              Sub(One, Div(skullDepthCm, azimuthalFocalDepthCm)))
                     ELSE areaFactor1
  IN  Mul(Mul(transducerWidthCm, transducerHeightCm), areaFactor2)

\* the value calculateThermalIndex returns when calculateBeamAreaAtSkull
\* does not throw
calculateThermalIndex(transducerWidthCm, transducerHeightCm, transducerAverageIntensityMWPerCm2, useElevationalFocusing, elevationalFocalDepthCm, useAzimuthalFocusing, azimuthalFocalDepthCm) ==
  LET transducerAreaCm2 == Mul(transducerWidthCm, transducerHeightCm)
      transducerPowerMW == Mul(transducerAverageIntensityMWPerCm2, transducerAreaCm2)
      beamAreaAtSkullCm2 ==
        calculateBeamAreaAtSkull(transducerWidthCm, transducerHeightCm,
                                 useElevationalFocusing, elevationalFocalDepthCm,
                                 useAzimuthalFocusing, azimuthalFocalDepthCm)
      equivalentDiameterCm == Mul(Two, Sqrt(Div(beamAreaAtSkullCm2, MathPI)))
  IN  Div(transducerPowerMW, Mul(C_CONSTANT_MW_PER_CM, equivalentDiameterCm))

\* mutant: the frequency is left out of the mechanical index
calculateMechanicalIndexNoFrequency(brainPressurePa, frequencyMHz) ==
  Mul(brainPressurePa, PA_TO_MPA)

calculateMechanicalIndex(brainPressurePa, frequencyMHz) ==
  LET brainPressureMPa == Mul(brainPressurePa, PA_TO_MPA)
  IN  Div(brainPressureMPa, Sqrt(frequencyMHz))

\* mutant: the gains are applied whether or not focusing is enabled
BrainPressurePaAlwaysFocused(p) ==
  Mul(Mul(Mul(p.transducerPressureKPa, KPA_TO_PA),
          calculateFocusingGain(p.transducerHeightCm, p.elevationalFocalDepthCm,
                                p.frequencyMHz)),
      calculateFocusingGain(p.transducerWidthCm, p.azimuthalFocalDepthCm, p.frequencyMHz))

\* mutant: the elevational gain is computed from the width, like the
\* azimuthal one
BrainPressurePaWidthOnBothAxes(p) ==
  LET transducerPressurePa == Mul(p.transducerPressureKPa, KPA_TO_PA)
      afterElevational ==
        IF p.useElevationalFocusing
        THEN Mul(transducerPressurePa,
                 calculateFocusingGain(p.transducerWidthCm, p.elevationalFocalDepthCm,
                                       p.frequencyMHz))
        ELSE transducerPressurePa
  IN  IF p.useAzimuthalFocusing
      THEN Mul(afterElevational,
               calculateFocusingGain(p.transducerWidthCm, p.azimuthalFocalDepthCm,
                                     p.frequencyMHz))
      ELSE afterElevational

\* the pressure at the focus, in Pa: the two optional gains, in order
BrainPressurePa(p) ==
  LET transducerPressurePa == Mul(p.transducerPressureKPa, KPA_TO_PA)
      afterElevational ==
        IF p.useElevationalFocusing
        THEN Mul(transducerPressurePa,
                 calculateFocusingGain(p.transducerHeightCm, p.elevationalFocalDepthCm,
                                       p.frequencyMHz))
        ELSE transducerPressurePa
  IN  IF p.useAzimuthalFocusing
      THEN Mul(afterElevational,
               calculateFocusingGain(p.transducerWidthCm, p.azimuthalFocalDepthCm,
                                     p.frequencyMHz))
      ELSE afterElevational

\* const pulseDurationSec = p.cycles / (p.frequencyMHz * MHZ_TO_HZ)
PulseDurationSec(p) == Div(p.cycles, Mul(p.frequencyMHz, MHZ_TO_HZ))

\* mutant: the duty cycle as a percent
DutyCyclePercent(p) ==
  Mul(Mul(PulseDurationSec(p), Mul(p.pulseRepetitionRateKHz, KHZ_TO_HZ)), FromNat(100))

\* const dutyCycle = pulseDurationSec * (p.pulseRepetitionRateKHz * KHZ_TO_HZ)
DutyCycle(p) == Mul(PulseDurationSec(p), Mul(p.pulseRepetitionRateKHz, KHZ_TO_HZ))

\* mutant: the radiated power and the thermal index are computed from the
\* average intensity at the focus instead of at the transducer face
SetResultsArgFocusedPower(p) ==
  LET pulseDurationSec == PulseDurationSec(p)
      dutyCycle == DutyCycle(p)
      brainPressurePa == BrainPressurePa(p)
      brainIntensityPerPulseWPerCm2 == calculateIntensity(brainPressurePa, IMPEDANCE_RAYL)
      brainAverageIntensityMWPerCm2 ==
        calculateAverageIntensity(brainIntensityPerPulseWPerCm2, dutyCycle)
      mechanicalIndex == calculateMechanicalIndex(brainPressurePa, p.frequencyMHz)
      tic == calculateThermalIndex(p.transducerWidthCm, p.transducerHeightCm,
                                   brainAverageIntensityMWPerCm2,
                                   p.useElevationalFocusing, p.elevationalFocalDepthCm,
                                   p.useAzimuthalFocusing, p.azimuthalFocalDepthCm)
      transducerAreaCm2 == Mul(p.transducerWidthCm, p.transducerHeightCm)
  IN  [pulseDurationSec |-> pulseDurationSec,
       dutyCycle |-> dutyCycle,
       intensityPerPulseWPerCm2 |-> brainIntensityPerPulseWPerCm2,
       averageIntensityMWPerCm2 |-> brainAverageIntensityMWPerCm2,
       transducerAveragePowerMW |-> Mul(brainAverageIntensityMWPerCm2, transducerAreaCm2),
       tic |-> tic,
       mechanicalIndex |-> mechanicalIndex,
       brainPressureKPa |-> Div(brainPressurePa, KPA_TO_PA)]

\* the object calculateResults hands to setResults when nothing throws
SetResultsArg(p) ==
  LET pulseDurationSec == PulseDurationSec(p)
      dutyCycle == DutyCycle(p)
      transducerPressurePa == Mul(p.transducerPressureKPa, KPA_TO_PA)
      transducerIntensityPerPulseWPerCm2 ==
        calculateIntensity(transducerPressurePa, IMPEDANCE_RAYL)
      transducerAverageIntensityMWPerCm2 ==
        calculateAverageIntensity(transducerIntensityPerPulseWPerCm2, dutyCycle)
      brainPressurePa == BrainPressurePa(p)
      brainIntensityPerPulseWPerCm2 == calculateIntensity(brainPressurePa, IMPEDANCE_RAYL)
      brainAverageIntensityMWPerCm2 ==
        calculateAverageIntensity(brainIntensityPerPulseWPerCm2, dutyCycle)
      mechanicalIndex == calculateMechanicalIndex(brainPressurePa, p.frequencyMHz)
      tic == calculateThermalIndex(p.transducerWidthCm, p.transducerHeightCm,
                                   transducerAverageIntensityMWPerCm2,
                                   p.useElevationalFocusing, p.elevationalFocalDepthCm,
                                   p.useAzimuthalFocusing, p.azimuthalFocalDepthCm)
      transducerAreaCm2 == Mul(p.transducerWidthCm, p.transducerHeightCm)
      transducerAveragePowerMW == Mul(transducerAverageIntensityMWPerCm2, transducerAreaCm2)
      brainPressureKPa == Div(brainPressurePa, KPA_TO_PA)
  IN  [pulseDurationSec |-> pulseDurationSec,
       dutyCycle |-> dutyCycle,
       intensityPerPulseWPerCm2 |-> brainIntensityPerPulseWPerCm2,
       averageIntensityMWPerCm2 |-> brainAverageIntensityMWPerCm2,
       transducerAveragePowerMW |-> transducerAveragePowerMW,
       tic |-> tic,
       mechanicalIndex |-> mechanicalIndex,
       brainPressureKPa |-> brainPressureKPa]

\* calculateResults(p) throws: the only throw is the guard of
\* calculateBeamAreaAtSkull, reached through calculateThermalIndex
calculateResultsThrows(p) ==
  BeamAreaThrows(p.elevationalFocalDepthCm, p.azimuthalFocalDepthCm)

\* mutant: the pulse timing and the pressure at the focus are stored before
\* the thermal index is computed, so a throw leaves a half-updated results
calculateResultsPartial(p, r) ==
  IF calculateResultsThrows(p)
  THEN [r EXCEPT !.pulseDurationSec = PulseDurationSec(p), !.dutyCycle = DutyCycle(p),
                 !.brainPressureKPa = Div(BrainPressurePa(p), KPA_TO_PA)]
  ELSE SetResultsArg(p)

\* mutant: the results are updated incrementally, the pressure at the focus
\* being kept from the previous results
calculateResultsIncremental(p, r) ==
  IF calculateResultsThrows(p)
  THEN r
  ELSE [SetResultsArg(p) EXCEPT !.brainPressureKPa = r.brainPressureKPa]

\* the results state after calculateResults(p), from the results r before
calculateResults(p, r) == IF calculateResultsThrows(p) THEN r ELSE SetResultsArg(p)

----------------------------------------------------------------------------
(* The rendered safety analysis *)

\* the BMUS table: <<threshold, minutes>>, in the order of the if statements
BMUSLimits ==
  <<<<Rat(7, 10), Inf(1)>>, <<FromNat(1), FromNat(60)>>, <<Rat(15, 10), FromNat(30)>>,
    <<FromNat(2), FromNat(15)>>, <<Rat(25, 10), FromNat(4)>>, <<FromNat(3), FromNat(1)>>>>

\* the ITRUSST table
ITRUSSTLimits ==
  <<<<Rat(15, 10), Inf(1)>>, <<FromNat(2), FromNat(80)>>, <<Rat(25, 10), FromNat(40)>>,
    <<FromNat(3), FromNat(10)>>, <<FromNat(4), Rat(267, 100)>>,
    <<Rat(45, 10), Rat(67, 100)>>, <<FromNat(5), Rat(17, 100)>>>>

\* mutant: the thresholds are compared with < instead of <=
getMaxExposureTimeExclusive(tic) ==
  IF Lt(tic, BMUSLimits[1][1]) THEN BMUSLimits[1][2]
  ELSE IF Lt(tic, BMUSLimits[2][1]) THEN BMUSLimits[2][2]
  ELSE IF Lt(tic, BMUSLimits[3][1]) THEN BMUSLimits[3][2]
  ELSE IF Lt(tic, BMUSLimits[4][1]) THEN BMUSLimits[4][2]
  ELSE IF Lt(tic, BMUSLimits[5][1]) THEN BMUSLimits[5][2]
  ELSE IF Lt(tic, BMUSLimits[6][1]) THEN BMUSLimits[6][2]
  ELSE PosZero

getMaxExposureTime(tic) ==
  IF Le(tic, BMUSLimits[1][1]) THEN BMUSLimits[1][2]
  ELSE IF Le(tic, BMUSLimits[2][1]) THEN BMUSLimits[2][2]
  ELSE IF Le(tic, BMUSLimits[3][1]) THEN BMUSLimits[3][2]
  ELSE IF Le(tic, BMUSLimits[4][1]) THEN BMUSLimits[4][2]
  ELSE IF Le(tic, BMUSLimits[5][1]) THEN BMUSLimits[5][2]
  ELSE IF Le(tic, BMUSLimits[6][1]) THEN BMUSLimits[6][2]
  ELSE PosZero

\* mutant: each ITRUSST threshold gives the minutes of the next one
getITRUSSTMaxExposureTimeShifted(tic) ==
  IF Le(tic, ITRUSSTLimits[1][1]) THEN ITRUSSTLimits[2][2]
  ELSE IF Le(tic, ITRUSSTLimits[2][1]) THEN ITRUSSTLimits[3][2]
  ELSE IF Le(tic, ITRUSSTLimits[3][1]) THEN ITRUSSTLimits[4][2]
  ELSE IF Le(tic, ITRUSSTLimits[4][1]) THEN ITRUSSTLimits[5][2]
  ELSE IF Le(tic, ITRUSSTLimits[5][1]) THEN ITRUSSTLimits[6][2]
  ELSE IF Le(tic, ITRUSSTLimits[6][1]) THEN ITRUSSTLimits[7][2]
  ELSE PosZero

getITRUSSTMaxExposureTime(tic) ==
  IF Le(tic, ITRUSSTLimits[1][1]) THEN ITRUSSTLimits[1][2]
  ELSE IF Le(tic, ITRUSSTLimits[2][1]) THEN ITRUSSTLimits[2][2]
  ELSE IF Le(tic, ITRUSSTLimits[3][1]) THEN ITRUSSTLimits[3][2]
  ELSE IF Le(tic, ITRUSSTLimits[4][1]) THEN ITRUSSTLimits[4][2]
  ELSE IF Le(tic, ITRUSSTLimits[5][1]) THEN ITRUSSTLimits[5][2]
  ELSE IF Le(tic, ITRUSSTLimits[6][1]) THEN ITRUSSTLimits[6][2]
  ELSE IF Le(tic, ITRUSSTLimits[7][1]) THEN ITRUSSTLimits[7][2]
  ELSE PosZero

\* the limits of the checks: MI 1.9, ISPPA 190 W/cm2, ISPTA 720 mW/cm2 and
\* the BMUS TIC limit 3
MILimit == Rat(19, 10)

ISPPALimit == FromNat(190)

ISPTALimit == FromNat(720)

TICLimit == FromNat(3)

Pass == "CheckCircle"

Fail == "AlertTriangle"

\* mutant: the limit itself passes
MICheckInclusive(r) == IF Le(r.mechanicalIndex, MILimit) THEN Pass ELSE Fail

\* results.mechanicalIndex < 1.9 ? CheckCircle : AlertTriangle
MICheck(r) == IF Lt(r.mechanicalIndex, MILimit) THEN Pass ELSE Fail

\* results.intensityPerPulseWPerCm2 < 190 ? ...
ISPPACheck(r) == IF Lt(r.intensityPerPulseWPerCm2, ISPPALimit) THEN Pass ELSE Fail

\* results.averageIntensityMWPerCm2 < 720 ? ...
ISPTACheck(r) == IF Lt(r.averageIntensityMWPerCm2, ISPTALimit) THEN Pass ELSE Fail

\* results.tic < 3 ? ...
TICCheck(r) == IF Lt(r.tic, TICLimit) THEN Pass ELSE Fail

\* what the Safety Analysis panel shows for the results r
Render(r) ==
  [mi |-> MICheck(r),
   isppa |-> ISPPACheck(r),
   ispta |-> ISPTACheck(r),
   tic |-> TICCheck(r),
   bmus |-> getMaxExposureTime(r.tic),
   itrusst |-> getITRUSSTMaxExposureTime(r.tic)]

----------------------------------------------------------------------------
(* The form: the inputs it shows and the texts typed into them *)

NumberInputs ==
  {"pulseRepetitionRateKHz", "frequencyMHz", "cycles", "transducerWidthCm",
   "transducerHeightCm", "transducerPressureKPa", "elevationalFocalDepthCm",
   "azimuthalFocalDepthCm"}

Checkboxes == {"useElevationalFocusing", "useAzimuthalFocusing"}

\* the texts typed into each number input
Texts ==
  [pulseRepetitionRateKHz |-> {<<"5">>, <<"1", "0", "0", "0">>},
   frequencyMHz |-> {<<"2">>, <<"1">>, <<"0">>, <<>>},
   cycles |-> {<<"2">>, <<"3">>, <<"2", ".", "0">>},
   transducerWidthCm |-> {<<"2", ".", "8", "7">>, <<"1", ".", "3", "3">>},
   transducerHeightCm |-> {<<"1", ".", "3", "3">>},
   transducerPressureKPa |-> {<<"6", "0", "0">>, <<"1", "9", "0", "0">>,
                              <<"-", "6", "0", "0">>},
   elevationalFocalDepthCm |-> {<<"3">>, <<"1">>, <<"0", ".", "5">>, <<"-", "1">>},
   azimuthalFocalDepthCm |-> {<<"3">>, <<"1">>, <<"-", "1">>}]

\* the inputs the form shows for the params p: a focal depth input is
\* rendered only while its axis's checkbox is checked
Shown(p) ==
  (NumberInputs \ {"elevationalFocalDepthCm", "azimuthalFocalDepthCm"})
    \cup (IF p.useElevationalFocusing THEN {"elevationalFocalDepthCm"} ELSE {})
    \cup (IF p.useAzimuthalFocusing THEN {"azimuthalFocalDepthCm"} ELSE {})
    \cup Checkboxes

\* the change events e.target can describe for the form shown for p
Events(p) ==
  UNION {{[name |-> n, type |-> "number", value |-> t, checked |-> FALSE] : t \in Texts[n]} :
           n \in Shown(p) \cap NumberInputs}
    \cup {[name |-> n, type |-> "checkbox", value |-> <<"o", "n">>, checked |-> ~p[n]] :
            n \in Checkboxes}

----------------------------------------------------------------------------
(* The component *)

\* parseFloat(value), tabulated over the texts of Texts
ParsedTexts == [t \in UNION {Texts[n] : n \in NumberInputs} |-> parseFloat(t)]

\* setParams((prev) => ({...prev, [name]: ...}))
setParams(prev, ev) ==
  [prev EXCEPT ![ev.name] = IF ev.type = "checkbox" THEN ev.checked ELSE ParsedTexts[ev.value]]

Init ==
  /\ params = DefaultParams
  /\ results = InitialResults
  /\ pending = TRUE
  /\ error = NoError
  /\ view = Render(InitialResults)

\* onChange of an input.  React runs a pending effect before it handles the
\* next event, and an error thrown by an effect takes the component down.
handleInputChange(ev) ==
  /\ ~pending
  /\ error = NoError
  /\ params' = setParams(params, ev)
  /\ pending' = TRUE
  /\ view' = Render(results)
  /\ UNCHANGED <<results, error>>

\* useEffect(() => { calculateResults(params); }, [params]), and the render
\* that setResults causes
Effect ==
  /\ pending
  /\ error = NoError
  /\ pending' = FALSE
  /\ results' = calculateResults(params, results)
  /\ error' = IF calculateResultsThrows(params) THEN TooShallow ELSE NoError
  /\ view' = IF calculateResultsThrows(params) THEN view ELSE Render(results')
  /\ UNCHANGED params

Next ==
  \/ \E ev \in Events(params) : handleInputChange(ev)
  \/ Effect

Spec == Init /\ [][Next]_vars

----------------------------------------------------------------------------
(* The Safety Analysis panel alone, as a function of the results it is    *)
(* given: the results are drawn from sample values around the limits and  *)
(* the thresholds of the tables, and rendered once.                       *)

\* the largest sampled TIC, in tenths
MaxTicTenths == 60

TicSamples ==
  {Rat(k, 10) : k \in {j \in 1..MaxTicTenths : Smooth(j)}}
    \cup {PosZero, Neg(One), Inf(1), NaN}

MISamples == {Rat(18, 10), Rat(19, 10), Two, NaN}

ISPPASamples == {FromNat(189), FromNat(190), FromNat(200)}

ISPTASamples == {FromNat(700), FromNat(720), FromNat(750)}

\* nothing rendered yet
Blank ==
  [mi |-> "", isppa |-> "", ispta |-> "", tic |-> "", bmus |-> NaN, itrusst |-> NaN]

InitRender ==
  /\ params = DefaultParams
  /\ \E m \in MISamples, i \in ISPPASamples, a \in ISPTASamples, t \in TicSamples :
       results = [InitialResults EXCEPT !.mechanicalIndex = m,
                                        !.intensityPerPulseWPerCm2 = i,
                                        !.averageIntensityMWPerCm2 = a,
                                        !.tic = t]
  /\ pending = FALSE
  /\ error = NoError
  /\ view = Blank

RenderResults ==
  /\ view = Blank
  /\ view' = Render(results)
  /\ UNCHANGED <<params, results, pending, error>>

SpecRender == InitRender /\ [][RenderResults]_vars

----------------------------------------------------------------------------
(* calculateResults alone, as a function of the params it is given: the  *)
(* component is mounted with params drawn from sample values, and its      *)
(* effect runs once.                                                       *)

\* the sampled params: every number is positive but a focal depth of -1,
\* the dimensions can be swapped, and a focal depth can be deeper than, on
\* and shallower than the skull depth
ParamSamples ==
  [pulseRepetitionRateKHz : {FromNat(5), FromNat(1000)},
   frequencyMHz : {FromNat(2), One},
   cycles : {FromNat(2), FromNat(3)},
   transducerWidthCm : {Rat(287, 100), Rat(133, 100), Rat(1, 2)},
   transducerHeightCm : {Rat(133, 100), Rat(287, 100)},
   transducerPressureKPa : {FromNat(600), FromNat(1900)},
   useElevationalFocusing : BOOLEAN,
   elevationalFocalDepthCm : {FromNat(3), FromNat(2), One, Rat(1, 2), Neg(One)},
   useAzimuthalFocusing : BOOLEAN,
   azimuthalFocalDepthCm : {FromNat(3), FromNat(2), Neg(One)}]

InitCalc ==
  /\ params \in ParamSamples
  /\ results = InitialResults
  /\ pending = TRUE
  /\ error = NoError
  /\ view = Render(InitialResults)

SpecCalc == InitCalc /\ [][Effect]_vars

----------------------------------------------------------------------------
(* Properties *)

\* the effect has run for the current params
Settled == ~pending

\* the numerator, with its sign, of a zero or a finite rational
SignedNumer(a) == IF a.k = "zero" THEN 0 ELSE a.s * Numer(a)

\* a < b by cross multiplication of whole numbers, for a and b that are zero,
\* infinite, NaN or rational
ExactLt(a, b) ==
  CASE a.k = "nan" \/ b.k = "nan" -> FALSE
    [] a.k = "inf" /\ b.k # "nan" -> a.s = -1 /\ ~(b.k = "inf" /\ b.s = -1)
    [] a.k # "inf" /\ b.k = "inf" -> b.s = 1
    [] (a.k = "zero" \/ IsRational(a)) /\ (b.k = "zero" \/ IsRational(b)) ->
         SignedNumer(a) * Denom(b) < SignedNumer(b) * Denom(a)

ExactLe(a, b) == a.k # "nan" /\ b.k # "nan" /\ ~ExactLt(b, a)

Positive(a) == a.k = "fin" /\ a.s = 1

\* focusing is enabled on an axis whose focal depth is at most the skull depth
ShallowFocus(p) ==
  \/ p.useElevationalFocusing /\ Le(p.elevationalFocalDepthCm, skullDepthCm)
  \/ p.useAzimuthalFocusing /\ Le(p.azimuthalFocalDepthCm, skullDepthCm)

\* C1: whenever focusing is enabled on an axis whose focal depth is at most
\* the 1 cm skull depth, the calculation ends in the "focal depth too
\* shallow" error and produces no metric.
C1_ShallowFocusRaises ==
  (Settled /\ ShallowFocus(params)) => error = TooShallow

\* a numeric field of the params is not a positive finite number
HasInvalidField(p) ==
  \E n \in NumberInputs : ~(p[n].k = "fin" /\ p[n].s = 1)

\* C2: params with a non-positive or non-finite numeric field are rejected
\* before computation: no field of the results is ever NaN or infinite, and
\* no results are computed from such params.
C2_InvalidInputRejected ==
  /\ \A f \in ResultFields : IsFinite(results[f])
  /\ (Settled /\ HasInvalidField(params)) => error # NoError

\* C3: the calculation fails or computes fully: a run of the effect that
\* raises changes no field of the results, and a run that does not raise
\* replaces all eight fields by the values computed from the current params.
C3_FailOrComputeFully ==
  [][(pending /\ ~pending') =>
       \/ error' = TooShallow /\ \A f \in ResultFields : results'[f] = results[f]
       \/ /\ error' = NoError
          /\ \A f \in ResultFields : results'[f] = SetResultsArg(params)[f]]_vars

\* the calculation raised after results had been computed, and they stand
C3_Witness ==
  /\ error = TooShallow
  /\ params.elevationalFocalDepthCm = Neg(One)
  /\ params.transducerPressureKPa = FromNat(1900)
  /\ results = SetResultsArg([params EXCEPT !.elevationalFocalDepthCm = FromNat(3)])

C6_ChecksAreStrict ==
  view # Blank =>
    /\ view.mi = (IF ExactLt(results.mechanicalIndex, Rat(19, 10)) THEN Pass ELSE Fail)
    /\ view.isppa =
         (IF ExactLt(results.intensityPerPulseWPerCm2, FromNat(190)) THEN Pass ELSE Fail)
    /\ view.ispta =
         (IF ExactLt(results.averageIntensityMWPerCm2, FromNat(720)) THEN Pass ELSE Fail)

\* all three metrics sit exactly on their limits and all three checks fail
C6_Witness ==
  /\ view # Blank
  /\ results.mechanicalIndex = Rat(19, 10)
  /\ results.intensityPerPulseWPerCm2 = FromNat(190)
  /\ results.averageIntensityMWPerCm2 = FromNat(720)
  /\ view.mi = Fail /\ view.isppa = Fail /\ view.ispta = Fail

\* the minutes the table gives t: those of the first threshold, in the
\* table's order, that t does not exceed; 0 beyond the last
StepOf(table, t) ==
  IF \E i \in 1..Len(table) : ExactLe(t, table[i][1])
  THEN table[CHOOSE i \in 1..Len(table) :
               /\ ExactLe(t, table[i][1])
               /\ \A j \in 1..(i - 1) : ~ExactLe(t, table[j][1])][2]
  ELSE PosZero

Ascending(table) ==
  \A i, j \in 1..Len(table) : i < j => ExactLt(table[i][1], table[j][1])

\* C7: the BMUS and ITRUSST exposure times are step functions of TIC that
\* never increase with TIC, are unbounded up to the lowest threshold (0.7,
\* 1.5), 0 above the highest (3, 5), and in between the minutes of the first
\* threshold, in ascending order, that TIC does not exceed.
C7_ExposureStepFunctions ==
  (view # Blank /\ results.tic.k # "nan") =>
    LET t == results.tic
    IN  /\ Ascending(BMUSLimits) /\ Ascending(ITRUSSTLimits)
        /\ ExactLe(t, Rat(7, 10)) => view.bmus = Inf(1)
        /\ ExactLt(FromNat(3), t) => view.bmus = PosZero
        /\ ExactLe(t, Rat(15, 10)) => view.itrusst = Inf(1)
        /\ ExactLt(FromNat(5), t) => view.itrusst = PosZero
        /\ view.bmus = StepOf(BMUSLimits, t)
        /\ view.itrusst = StepOf(ITRUSSTLimits, t)
        /\ \A u \in TicSamples :
             ExactLe(t, u) =>
               /\ ExactLe(getMaxExposureTime(u), view.bmus)
               /\ ExactLe(getITRUSSTMaxExposureTime(u), view.itrusst)

\* a TIC on an inner threshold of both tables
C7_Witness ==
  /\ view # Blank
  /\ results.tic = Rat(25, 10)
  /\ view.bmus = FromNat(4)
  /\ view.itrusst = FromNat(40)

\* C8: for positive frequency, cycles and pulse repetition rate,
\* pulseDurationSec = cycles / (frequencyMHz * 1e6) and dutyCycle =
\* pulseDurationSec * pulseRepetitionRateKHz * 1e3, a fraction; the default
\* timing (5 kHz, 2 MHz, 2 cycles) gives 1e-6 s and 0.005.
C8_PulseTiming ==
  (Settled /\ error = NoError /\ Positive(params.frequencyMHz)
     /\ Positive(params.cycles) /\ Positive(params.pulseRepetitionRateKHz)) =>
    LET f == params.frequencyMHz
        c == params.cycles
        r == params.pulseRepetitionRateKHz
        pd == results.pulseDurationSec
        dc == results.dutyCycle
    IN  /\ IsRational(pd) /\ IsRational(dc) /\ pd.s = 1 /\ dc.s = 1
        /\ Numer(pd) * Numer(f) * 1000000 * Denom(c) = Numer(c) * Denom(pd) * Denom(f)
        /\ Numer(dc) * Denom(pd) * Denom(r) = Numer(pd) * Numer(r) * 1000 * Denom(dc)
        /\ (f = FromNat(2) /\ c = FromNat(2) /\ r = FromNat(5)) =>
             (pd = Rat(1, 1000000) /\ dc = Rat(5, 1000))

\* timing other than the default typed in and computed
C8_Witness ==
  /\ Settled
  /\ error = NoError
  /\ params.cycles = FromNat(3)
  /\ params.frequencyMHz = FromNat(1)
  /\ params.pulseRepetitionRateKHz = FromNat(1000)
  /\ results.pulseDurationSec = Rat(3, 1000000)
  /\ results.dutyCycle = FromNat(3)

\* C9: the stored duty cycle is always within [0, 1]: params whose pulse
\* repetition rate times pulse duration exceeds 1 are not computed with.
C9_DutyCycleWithinUnitInterval ==
  (Settled /\ error = NoError /\ ~HasInvalidField(params)) =>
    /\ ExactLe(PosZero, results.dutyCycle)
    /\ ExactLe(results.dutyCycle, One)

\* the positive frequencies that can be typed
PositiveFrequencies ==
  {x \in {ParsedTexts[t] : t \in Texts.frequencyMHz} : Positive(x)}

\* the mechanical index calculateResults computes for p at the frequency f
MechanicalIndexAt(p, f) == SetResultsArg([p EXCEPT !.frequencyMHz = f]).mechanicalIndex

\* C10 as claimed: for every setting of the focusing toggles and a positive
\* pressure, the mechanical index is strictly decreasing in the frequency.
C10_MIDecreasingInFrequency ==
  (Settled /\ error = NoError /\ Positive(params.frequencyMHz)
     /\ Positive(params.transducerPressureKPa)) =>
    \A f2 \in PositiveFrequencies :
      Lt(params.frequencyMHz, f2) =>
        Lt(MechanicalIndexAt(params, f2), results.mechanicalIndex)

\* C10, amended: with both focusing toggles off and a positive pressure, the
\* mechanical index is strictly decreasing in the frequency.
C10_MIDecreasingInFrequencyUnfocused ==
  (Settled /\ error = NoError /\ Positive(params.frequencyMHz)
     /\ Positive(params.transducerPressureKPa)
     /\ ~params.useElevationalFocusing /\ ~params.useAzimuthalFocusing) =>
    \A f2 \in PositiveFrequencies :
      Lt(params.frequencyMHz, f2) =>
        Lt(MechanicalIndexAt(params, f2), results.mechanicalIndex)

\* unfocused at 1 MHz, with the higher frequency 2 MHz to compare with
C10_Witness ==
  /\ Settled
  /\ error = NoError
  /\ ~params.useElevationalFocusing
  /\ ~params.useAzimuthalFocusing
  /\ params.frequencyMHz = FromNat(1)
  /\ params.transducerPressureKPa = FromNat(1900)
  /\ results.mechanicalIndex = Rat(19, 10)
  /\ FromNat(2) \in PositiveFrequencies

\* the params that differ from p in nothing but the focal depth of an axis
\* whose focusing toggle is off
DisabledDepthVariants(p) ==
  {[p EXCEPT !.elevationalFocalDepthCm = d] :
     d \in IF p.useElevationalFocusing THEN {} ELSE {q.elevationalFocalDepthCm : q \in ParamSamples}}
    \cup {[p EXCEPT !.azimuthalFocalDepthCm = d] :
            d \in IF p.useAzimuthalFocusing THEN {} ELSE {q.azimuthalFocalDepthCm : q \in ParamSamples}}

Unfocused(p) ==
  [p EXCEPT !.useElevationalFocusing = FALSE,
            !.elevationalFocalDepthCm = DefaultParams.elevationalFocalDepthCm,
            !.useAzimuthalFocusing = FALSE,
            !.azimuthalFocalDepthCm = DefaultParams.azimuthalFocalDepthCm]

\* C12: whenever the calculation does not raise, pulseDurationSec, dutyCycle
\* and transducerAveragePowerMW are what they are with focusing off and the
\* default focal depths; the power is the average intensity at the
\* transducer face (from the surface pressure) times width times height, and
\* tic is that power over 40 * 2 * sqrt(beamArea / pi), so that focusing
\* reaches the thermal index through the beam area at the skull only.
C12_PowerAndTimingIgnoreFocusing ==
  (Settled /\ error = NoError) =>
    LET u == SetResultsArg(Unfocused(params))
        facePressurePa == Mul(params.transducerPressureKPa, KPA_TO_PA)
        faceAverage ==
          calculateAverageIntensity(calculateIntensity(facePressurePa, IMPEDANCE_RAYL),
                                    results.dutyCycle)
        beamArea ==
          calculateBeamAreaAtSkull(params.transducerWidthCm, params.transducerHeightCm,
                                   params.useElevationalFocusing,
                                   params.elevationalFocalDepthCm,
                                   params.useAzimuthalFocusing,
                                   params.azimuthalFocalDepthCm)
    IN  /\ results.pulseDurationSec = u.pulseDurationSec
        /\ results.dutyCycle = u.dutyCycle
        /\ results.transducerAveragePowerMW = u.transducerAveragePowerMW
        /\ results.transducerAveragePowerMW =
             Mul(Mul(faceAverage, params.transducerWidthCm), params.transducerHeightCm)
        /\ results.tic =
             Div(results.transducerAveragePowerMW,
                 Mul(FromNat(80), Sqrt(Div(beamArea, MathPI))))

\* both axes focused beyond the skull: the pressure at the focus is not the
\* surface pressure, the thermal index is a positive number and not the
\* unfocused one
C12_Witness ==
  /\ Settled
  /\ error = NoError
  /\ params.useElevationalFocusing /\ params.useAzimuthalFocusing
  /\ params.elevationalFocalDepthCm = FromNat(3)
  /\ params.azimuthalFocalDepthCm = FromNat(2)
  /\ results.brainPressureKPa # params.transducerPressureKPa
  /\ Positive(results.tic)
  /\ results.tic # SetResultsArg(Unfocused(params)).tic

\* the Fresnel number of an aperture of the dimension d (cm) focused at the
\* depth z (cm) at the frequency f (MHz), d^2 / (wavelength * z) with the
\* lengths in metres: d^2 * f * 10^4 / (speed of sound * z)
FresnelNumber(d, z, f) ==
  Div(Mul(Mul(Mul(d, d), f), FromNat(10000)), Mul(SPEED_OF_SOUND_M_PER_S, z))

\* the params p with the width and the azimuthal settings exchanged with the
\* height and the elevational settings
Swapped(p) ==
  [p EXCEPT !.transducerWidthCm = p.transducerHeightCm,
            !.transducerHeightCm = p.transducerWidthCm,
            !.useElevationalFocusing = p.useAzimuthalFocusing,
            !.elevationalFocalDepthCm = p.azimuthalFocalDepthCm,
            !.useAzimuthalFocusing = p.useElevationalFocusing,
            !.azimuthalFocalDepthCm = p.elevationalFocalDepthCm]

\* the pressure at the focus, in Pa, with the azimuthal gain applied first
AzimuthalFirstPa(p) ==
  LET afterAzimuthal ==
        IF p.useAzimuthalFocusing
        THEN Mul(Mul(p.transducerPressureKPa, KPA_TO_PA),
                 calculateFocusingGain(p.transducerWidthCm, p.azimuthalFocalDepthCm,
                                       p.frequencyMHz))
        ELSE Mul(p.transducerPressureKPa, KPA_TO_PA)
  IN  IF p.useElevationalFocusing
      THEN Mul(afterAzimuthal,
               calculateFocusingGain(p.transducerHeightCm, p.elevationalFocalDepthCm,
                                     p.frequencyMHz))
      ELSE afterAzimuthal

C14_BMUSNeverMorePermissive ==
  view # Blank =>
    /\ view.bmus = getMaxExposureTime(results.tic)
    /\ view.itrusst = getITRUSSTMaxExposureTime(results.tic)
    /\ ExactLe(view.bmus, view.itrusst)

\* a TIC for which both tables give a finite, non-zero time
C14_Witness ==
  /\ view # Blank
  /\ results.tic = FromNat(2)
  /\ view.bmus = FromNat(15)
  /\ view.itrusst = FromNat(80)

\* C15: the TIC check passes exactly when the BMUS exposure time shown is
\* greater than 0: a TIC shown as failing is never given a non-zero BMUS time.
C15_TICCheckAgreesWithBMUS ==
  view # Blank => ((view.tic = Pass) <=> ExactLt(PosZero, view.bmus))

\* a >= b for positive a and b whose quotient has a rational square
GeqPositive(a, b) ==
  /\ Positive(a) /\ Positive(b)
  /\ ExactLe(One, Mul(Div(a, b), Div(a, b)))

\* a < b for positive a and b whose quotient has a rational square
LtPositive(a, b) ==
  /\ Positive(a) /\ Positive(b)
  /\ ExactLt(Mul(Div(a, b), Div(a, b)), One)

\* the axes of the params p: the toggle, the dimension and the focal depth
Axes(p) ==
  {[toggle |-> "useElevationalFocusing", dimension |-> p.transducerHeightCm,
    depth |-> p.elevationalFocalDepthCm],
   [toggle |-> "useAzimuthalFocusing", dimension |-> p.transducerWidthCm,
    depth |-> p.azimuthalFocalDepthCm]}

\* every input is positive, and the focal depth of the enabled axis a is
\* greater than the skull depth; the calculation has run for these params
FocusedBeyondSkull(a) ==
  /\ Settled /\ error = NoError
  /\ ~HasInvalidField(params)
  /\ params[a.toggle]
  /\ ExactLt(skullDepthCm, a.depth)

\* the results with focusing on the axis a are at least those without it
\* (the positive intensities are compared by their quotient)
NotLoweredBy(a) ==
  LET off == SetResultsArg([params EXCEPT ![a.toggle] = FALSE])
  IN  /\ ExactLe(One, Mul(calculateFocusingGain(a.dimension, a.depth, params.frequencyMHz),
                          calculateFocusingGain(a.dimension, a.depth, params.frequencyMHz)))
      /\ GeqPositive(results.brainPressureKPa, off.brainPressureKPa)
      /\ GeqPositive(results.mechanicalIndex, off.mechanicalIndex)
      /\ ExactLe(One, Div(results.intensityPerPulseWPerCm2, off.intensityPerPulseWPerCm2))

\* the results with focusing on the axis a are below those without it
LoweredBy(a) ==
  LET off == SetResultsArg([params EXCEPT ![a.toggle] = FALSE])
  IN  /\ LtPositive(results.brainPressureKPa, off.brainPressureKPa)
      /\ LtPositive(results.mechanicalIndex, off.mechanicalIndex)
      /\ ExactLt(Div(results.intensityPerPulseWPerCm2, off.intensityPerPulseWPerCm2), One)

\* C16 as claimed: for positive inputs and a focal depth greater than 1 cm,
\* the gain of an enabled axis is at least 1, and brainPressureKPa,
\* mechanicalIndex and the peak intensity are at least what they are with
\* the axis disabled.
C16_FocusingNeverLowers ==
  \A a \in Axes(params) : FocusedBeyondSkull(a) => NotLoweredBy(a)

\* C16, amended: for positive inputs and a focal depth greater than 1 cm,
\* enabling an axis whose Fresnel number dimension^2 / (wavelength * focal
\* depth) is at least 1 lowers none of brainPressureKPa, mechanicalIndex and
\* the peak intensity; with a Fresnel number below 1 it lowers all three.
C16_FocusingNeverLowersFromFresnelOne ==
  \A a \in Axes(params) :
    FocusedBeyondSkull(a) =>
      IF ExactLe(One, FresnelNumber(a.dimension, a.depth, params.frequencyMHz))
      THEN NotLoweredBy(a)
      ELSE LoweredBy(a)

\* the azimuthal axis alone is focused, with a Fresnel number above 1, and
\* the pressure at the focus is above the surface pressure
C16_Witness ==
  /\ Settled
  /\ error = NoError
  /\ ~params.useElevationalFocusing
  /\ params.useAzimuthalFocusing
  /\ params.transducerWidthCm = Rat(287, 100)
  /\ params.azimuthalFocalDepthCm = FromNat(3)
  /\ params.elevationalFocalDepthCm = FromNat(3)
  /\ ExactLt(One, FresnelNumber(params.transducerWidthCm, params.azimuthalFocalDepthCm,
                                params.frequencyMHz))
  /\ GeqPositive(results.brainPressureKPa, params.transducerPressureKPa)
  /\ results.brainPressureKPa # params.transducerPressureKPa

=============================================================================
